---- MODULE Spec2Model ----
(***************************************************************************)
(* videograb-server: the bot handlers (/start resolution, admin video      *)
(* upload), the /api/files listing route, and the two in-memory caches     *)
(* (fileIdCache, filesCache).  The repository holds two entry files,       *)
(* src/unnamed/part_000 and src/src/index.ts; the variable `build` says    *)
(* which of them the process runs.                                         *)
(*                                                                         *)
(* Strings the code parses (command payload, caption, page query, ids) are *)
(* sequences of one-character strings.  An optional value is a sequence of *)
(* length 0 or 1.  Numbers that may carry one decimal place (the page) are *)
(* kept in tenths.  Time is Date.now() in seconds.                         *)
(***************************************************************************)
EXTENDS Integers, Sequences, FiniteSets, TLC

\* ------------------------------------------------------------------ bounds
MaxUploads == 1          \* video updates received while the listing route is observed
TickSeconds == 300       \* granularity of the clock
MaxTime == 600           \* the clock stops here
MaxRequests == 3         \* listing requests received
MaxUpdates == 3          \* bot updates received

\* ------------------------------------------------------- program constants
stdTTL == 60 * 5                         \* filesCache stdTTL, seconds
limit == 30                              \* page size of /api/files
AdminUser == 7                           \* the sender whose id is ADMIN_ID
OtherUser == 8                           \* any other sender
ADMIN_ID == <<"7">>                      \* process.env.ADMIN_ID

Builds == {"part_000", "index"}
Senders == {AdminUser, OtherUser}
Listers == {"r1", "r2"}

\* ------------------------------------------------------------ string helpers
Digit(d) ==
    CASE d = 0 -> "0" [] d = 1 -> "1" [] d = 2 -> "2" [] d = 3 -> "3"
      [] d = 4 -> "4" [] d = 5 -> "5" [] d = 6 -> "6" [] d = 7 -> "7"
      [] d = 8 -> "8" [] d = 9 -> "9"

DigitVal(c) ==
    CASE c = "0" -> 0 [] c = "1" -> 1 [] c = "2" -> 2 [] c = "3" -> 3
      [] c = "4" -> 4 [] c = "5" -> 5 [] c = "6" -> 6 [] c = "7" -> 7
      [] c = "8" -> 8 [] c = "9" -> 9

IsDigit(c) == c \in {"0", "1", "2", "3", "4", "5", "6", "7", "8", "9"}

RECURSIVE Str(_)
\* String(n) of a natural number
Str(n) == IF n < 10 THEN <<Digit(n)>> ELSE Str(n \div 10) \o <<Digit(n % 10)>>

RECURSIVE TrimStart(_)
TrimStart(s) == IF s # <<>> /\ Head(s) = " " THEN TrimStart(Tail(s)) ELSE s

RECURSIVE TrimEnd(_)
TrimEnd(s) ==
    IF s # <<>> /\ s[Len(s)] = " " THEN TrimEnd(SubSeq(s, 1, Len(s) - 1)) ELSE s

\* String.prototype.trim
Trim(s) == TrimEnd(TrimStart(s))

VideoPrefix == <<"v", "i", "d", "e", "o", "_">>

\* s.replace(/^video_/, ""): one leading occurrence is removed
StripPrefix(s) ==
    IF Len(s) >= Len(VideoPrefix) /\ SubSeq(s, 1, Len(VideoPrefix)) = VideoPrefix
    THEN SubSeq(s, Len(VideoPrefix) + 1, Len(s))
    ELSE s

\* the id taken without trimming the payload
ShortIdNoTrim(payload) == StripPrefix(payload)

\* payload.trim().replace(/^video_/, "")
ShortId(payload) == StripPrefix(Trim(payload))

\* ------------------------------------------------------------ page parsing
\* A parsed number is <<>> (NaN) or <<v>> with v the value in tenths.
RECURSIVE DigitsVal(_)
DigitsVal(s) == IF s = <<>> THEN 0 ELSE DigitsVal(SubSeq(s, 1, Len(s) - 1)) * 10 + DigitVal(s[Len(s)])

RECURSIVE DigitPrefix(_)
DigitPrefix(s) ==
    IF s # <<>> /\ IsDigit(Head(s)) THEN <<Head(s)>> \o DigitPrefix(Tail(s)) ELSE <<>>

Unsigned(s) == IF s # <<>> /\ Head(s) \in {"-", "+"} THEN Tail(s) ELSE s
Sign(s) == IF s # <<>> /\ Head(s) = "-" THEN -1 ELSE 1

\* Number(s) of a query string with at most one decimal digit; absent is <<>>
NumberOf(q) ==
    IF q = <<>> THEN <<>>
    ELSE LET s == Trim(q[1])
             u == Unsigned(s)
             ip == DigitPrefix(u)
             rest == SubSeq(u, Len(ip) + 1, Len(u))
         IN  IF s = <<>> THEN <<0>>
             ELSE IF ip # <<>> /\ rest = <<>> THEN <<Sign(s) * DigitsVal(ip) * 10>>
             ELSE IF ip # <<>> /\ Len(rest) = 2 /\ rest[1] = "." /\ IsDigit(rest[2])
                  THEN <<Sign(s) * (DigitsVal(ip) * 10 + DigitVal(rest[2]))>>
             ELSE <<>>

\* parseInt(s): the leading integer of the string, the rest ignored
ParseIntOf(q) ==
    IF q = <<>> THEN <<>>
    ELSE LET s == TrimStart(q[1])
             ip == DigitPrefix(Unsigned(s))
         IN  IF ip = <<>> THEN <<>> ELSE <<Sign(s) * DigitsVal(ip) * 10>>

\* x || 1 then Math.max(.., 1), in tenths
AtLeastOne(x) ==
    LET v == IF x = <<>> \/ x[1] = 0 THEN 10 ELSE x[1]
    IN  IF v > 10 THEN v ELSE 10

\* const page = Math.max(Number(req.query.page) || 1, 1)      (part_000)
\* const page = Math.max(parseInt(req.query.page) || 1, 1)    (index.ts)
PageOf(b, q) == AtLeastOne(IF b = "part_000" THEN NumberOf(q) ELSE ParseIntOf(q))

\* const skip = (page - 1) * limit
SkipOf(page) == ((page - 10) * limit) \div 10

\* `files_${page}` / `files_page_${page}`
CacheKey(b, page) == <<IF b = "part_000" THEN "files_" ELSE "files_page_", page>>

\* Math.ceil(total / limit)
TotalPages(total) == (total + limit - 1) \div limit

\* ------------------------------------------------------------ catalog store
\* File.create(doc): the store assigns the id
Create(st, doc) ==
    Append(st, [_id |-> Str(Len(st) + 1), file_id |-> doc.file_id,
                title |-> doc.title, thumbnail |-> doc.thumbnail])

\* File.findById(id).lean(): the record, or null (<<>>)
FindById(st, id) ==
    LET hits == {i \in 1..Len(st) : st[i]._id = id}
    IN  IF hits = {} THEN <<>> ELSE <<st[CHOOSE i \in hits : TRUE]>>

\* File.find({}).sort({createdAt: -1}).skip(skip).limit(lim).lean()
FindPage(st, skip, lim) ==
    LET n == Len(st)
        newest == [i \in 1..n |-> st[n + 1 - i]]
        last == IF skip + lim < n THEN skip + lim ELSE n
    IN  SubSeq(newest, skip + 1, last)

\* File.countDocuments()
CountDocuments(st) == Len(st)

\* ------------------------------------------------------- filesCache (NodeCache)
EmptyCache == [k \in {} |-> k]

\* NodeCache._check: an entry is expired once its deadline t lies before Date.now()
Expired(e, t) == e.t < t

\* filesCache.get(key): the value (<<v>>) or undefined (<<>>)
CacheGet(c, k, t) == IF k \in DOMAIN c /\ ~Expired(c[k], t) THEN <<c[k].v>> ELSE <<>>

\* a get that renews the deadline of the entry it serves
CacheAfterGetSliding(c, k, t) ==
    IF k \in DOMAIN c /\ Expired(c[k], t) THEN [x \in DOMAIN c \ {k} |-> c[x]]
    ELSE IF k \in DOMAIN c THEN [c EXCEPT ![k].t = t + stdTTL]
    ELSE c

\* the cache after get(key): an expired entry is deleted on access
CacheAfterGet(c, k, t) ==
    IF k \in DOMAIN c /\ Expired(c[k], t) THEN [x \in DOMAIN c \ {k} |-> c[x]] ELSE c

\* filesCache.set(key, value): deadline now + stdTTL.  gen, n and by record, for
\* the properties, the flushes and records that preceded the set and who set it.
CacheSet(c, k, v, t, g, n, r) ==
    [x \in DOMAIN c \cup {k} |->
        IF x = k THEN [t |-> t + stdTTL, v |-> v, gen |-> g, n |-> n, by |-> r]
        ELSE c[x]]

\* an invalidation that deletes the first page only
FlushFirstPage(c) == [x \in {k \in DOMAIN c : k[2] # 10} |-> c[x]]

\* filesCache.flushAll()
FlushAll(c) == EmptyCache

\* the checkperiod timer: expired entries are deleted
CheckData(c, t) == [x \in {k \in DOMAIN c : ~Expired(c[k], t)} |-> c[x]]

\* ------------------------------------------------------------------- inputs
Payloads ==
    { <<>>,
      VideoPrefix,
      VideoPrefix \o <<" ">>,
      VideoPrefix \o <<"1">>,
      VideoPrefix \o <<"2">>,
      <<"2">> }

Queries ==
    { <<>>, << <<"a", "b", "c">> >>, << <<"0">> >>, << <<"-", "5">> >>,
      << <<"1">> >>, << <<"2">> >> }

Untitled == <<"U", "n", "t", "i", "t", "l", "e", "d", " ", "V", "i", "d", "e", "o">>

Submissions ==
    { [video |-> <<"vidA">>, caption |-> << <<" ", "T", "r", "a", "i", "l", "e", "r">> >>,
       thumbnail |-> <<"thA">>],
      [video |-> <<"vidB">>, caption |-> <<>>, thumbnail |-> <<>>],
      [video |-> <<>>, caption |-> <<>>, thumbnail |-> <<>>] }

NoSub == [video |-> <<>>, caption |-> <<>>, thumbnail |-> <<>>]

UUIDs == {"u1", "u2"}

\* ctx.message?.caption?.trim() || "Untitled Video"
TitleOf(caption) ==
    IF caption = <<>> \/ Trim(caption[1]) = <<>> THEN Untitled ELSE Trim(caption[1])

\* an authorization check that lets every sender through
IsAdminAnyone(from) == from \in {AdminUser, OtherUser}

\* String(ctx.from?.id) !== String(process.env.ADMIN_ID) is false
IsAdmin(from) == Str(from) = ADMIN_ID

\* filesCache.flushAll() after File.create: present in part_000 only
FlushesOnUpload(b) == b = "part_000"

\* --------------------------------------------------------------------- state
VARIABLES
    build,        \* the entry file the process runs
    now,          \* Date.now(), seconds
    store,        \* the File collection, oldest first
    host,         \* thumbnail paths published on the content host
    fileIdCache,  \* id -> file_id
    filesCache,   \* cacheKey -> entry
    bot,          \* per sender: the handler run in progress or last finished
    http,         \* per listing request slot: the request in progress or last answered
    acked,        \* history: records whose success reply was sent
    flushCount,   \* history: number of flushAll calls
    invalidated,  \* history: records whose creation was followed by its flushAll
    missed,       \* history: ids a resolution answered "not available"
    requests,     \* history: listing requests received
    updates       \* history: bot updates received

vars == <<build, now, store, host, fileIdCache, filesCache, bot, http,
          acked, flushCount, invalidated, missed, requests, updates>>

BotIdle ==
    [kind |-> "none", pc |-> "done", payload |-> <<>>, sub |-> NoSub, id |-> <<>>,
     file |-> <<>>, file_id |-> "", title |-> <<>>, thumbnail_url |-> <<>>,
     out |-> <<>>, trace |-> <<>>, rec |-> <<>>, queried |-> FALSE,
     relayFailed |-> FALSE, failed |-> FALSE, uncaught |-> FALSE]

HttpIdle ==
    [pc |-> "idle", page |-> 10, files |-> <<>>, total |-> <<>>, status |-> 0,
     resp |-> <<>>, hit |-> FALSE, win |-> <<>>, ackedAtStart |-> {},
     gStart |-> 0, tStart |-> 0, tEnd |-> 0, n0 |-> 0, n1 |-> 0,
     lapsed |-> FALSE]

Init ==
    /\ build \in Builds
    /\ now = 0
    /\ store = <<>>
    /\ host = {}
    /\ fileIdCache = [k \in {} |-> k]
    /\ filesCache = EmptyCache
    /\ bot = [s \in Senders |-> BotIdle]
    /\ http = [r \in Listers |-> HttpIdle]
    /\ acked = {}
    /\ flushCount = 0
    /\ invalidated = {}
    /\ missed = {}
    /\ requests = 0
    /\ updates = 0

Reply(s, text) == [m |-> "reply", to |-> s, text |-> text, arg |-> ""]
SendVideo(s, file_id) == [m |-> "sendVideo", to |-> s, text |-> "", arg |-> file_id]
DeleteMessage(s) == [m |-> "deleteMessage", to |-> s, text |-> "", arg |-> ""]

\* --------------------------------------------------------------------- clock
Tick ==
    /\ now + TickSeconds <= MaxTime
    /\ now' = now + TickSeconds
    /\ UNCHANGED <<build, store, host, fileIdCache, filesCache, bot, http,
                   acked, flushCount, invalidated, missed, requests, updates>>

\* NodeCache's checkperiod timer
CachePurge ==
    /\ filesCache' = CheckData(filesCache, now)
    /\ filesCache' # filesCache
    /\ UNCHANGED <<build, now, store, host, fileIdCache, bot, http,
                   acked, flushCount, invalidated, missed, requests, updates>>

\* ------------------------------------------------------- GET /api/files
InFlight(r) == http[r].pc = "query"

Response(page, files, total) ==
    [success |-> TRUE, page |-> page, perPage |-> limit, total |-> total,
     totalPages |-> TotalPages(total), data |-> files]

\* The request arrives: the page is normalised and the cache is asked.  A hit
\* is answered at once; a miss issues both store reads (Promise.all).
HttpGet(r, q) ==
    /\ http[r].pc \in {"idle", "done"}
    /\ requests < MaxRequests
    /\ requests' = requests + 1
    /\ LET page == PageOf(build, q)
           key == CacheKey(build, page)
           cached == CacheGet(filesCache, key, now)
           stale == /\ key \in DOMAIN filesCache
                    /\ Expired(filesCache[key], now)
                    /\ filesCache[key].v.data # FindPage(store, SkipOf(page), limit)
           base == [HttpIdle EXCEPT !.page = page, !.ackedAtStart = acked,
                                    !.n0 = Len(store), !.n1 = Len(store),
                                    !.lapsed = stale]
       IN  /\ filesCache' = CacheAfterGet(filesCache, key, now)
           /\ IF cached # <<>>
              THEN http' = [http EXCEPT ![r] =
                       [base EXCEPT !.pc = "done", !.status = 200, !.resp = cached,
                                    !.hit = TRUE, !.tEnd = now,
                                    !.win = <<filesCache[key].by, filesCache[key].t,
                                              filesCache[key].gen>>]]
              ELSE http' = [http EXCEPT ![r] =
                       [base EXCEPT !.pc = "query", !.gStart = flushCount,
                                    !.tStart = now]]
    /\ UNCHANGED <<build, now, store, host, fileIdCache, bot,
                   acked, flushCount, invalidated, missed, updates>>

\* The store executes File.find(...).sort().skip().limit()
ListFind(r) ==
    /\ http[r].pc = "query"
    /\ http[r].files = <<>>
    /\ http' = [http EXCEPT ![r].files = <<FindPage(store, SkipOf(http[r].page), limit)>>]
    /\ UNCHANGED <<build, now, store, host, fileIdCache, filesCache, bot,
                   acked, flushCount, invalidated, missed, requests, updates>>

\* The store executes File.countDocuments()
ListCount(r) ==
    /\ http[r].pc = "query"
    /\ http[r].total = <<>>
    /\ http' = [http EXCEPT ![r].total = <<CountDocuments(store)>>]
    /\ UNCHANGED <<build, now, store, host, fileIdCache, filesCache, bot,
                   acked, flushCount, invalidated, missed, requests, updates>>

\* a failure path that leaves an empty listing in the cache
ListFailCachesError(r) ==
    /\ http[r].pc = "query"
    /\ http' = [http EXCEPT ![r].pc = "done", ![r].status = 500,
                            ![r].resp = <<[success |-> FALSE]>>,
                            ![r].files = <<>>, ![r].total = <<>>,
                            ![r].gStart = 0, ![r].tStart = 0,
                            ![r].n1 = Len(store), ![r].tEnd = now]
    /\ filesCache' = CacheSet(filesCache, CacheKey(build, http[r].page),
                              Response(http[r].page, <<>>, 0), now, flushCount,
                              Len(store), r)
    /\ UNCHANGED <<build, now, store, host, fileIdCache, bot,
                   acked, flushCount, invalidated, missed, requests, updates>>

\* One of the two reads rejects: catch, res.status(500).json({ success: false })
ListFail(r) ==
    /\ http[r].pc = "query"
    /\ http' = [http EXCEPT ![r].pc = "done", ![r].status = 500,
                            ![r].resp = <<[success |-> FALSE]>>,
                            ![r].files = <<>>, ![r].total = <<>>,
                            ![r].gStart = 0, ![r].tStart = 0,
                            ![r].n1 = Len(store), ![r].tEnd = now]
    /\ UNCHANGED <<build, now, store, host, fileIdCache, filesCache, bot,
                   acked, flushCount, invalidated, missed, requests, updates>>

\* Both reads resolved: the response is assembled, cached and sent
ListFinish(r) ==
    /\ http[r].pc = "query"
    /\ http[r].files # <<>>
    /\ http[r].total # <<>>
    /\ LET response == Response(http[r].page, http[r].files[1], http[r].total[1])
           key == CacheKey(build, http[r].page)
       IN  /\ filesCache' = CacheSet(filesCache, key, response, now,
                                     flushCount, Len(store), r)
           /\ http' = [http EXCEPT ![r].pc = "done", ![r].status = 200,
                                   ![r].resp = <<response>>,
                                   ![r].files = <<>>, ![r].total = <<>>,
                                   ![r].gStart = 0, ![r].tStart = 0,
                                   ![r].win = <<r, now + stdTTL, flushCount>>,
                                   ![r].n1 = Len(store), ![r].tEnd = now]
    /\ UNCHANGED <<build, now, store, host, fileIdCache, bot,
                   acked, flushCount, invalidated, missed, requests, updates>>

\* ------------------------------------------------------------ bot handlers
\* sequentialize(ctx => String(ctx.from.id)): one handler run per sender at a time
\* no per-sender queue: an update starts at once
FreeAlways(s) == TRUE

Free(s) == bot[s].pc = "done"

Sent(s, msg) == [bot EXCEPT ![s].out = Append(@, msg)]

\* The handler returns: its locals are gone
Returned(b, s) ==
    [b EXCEPT ![s].pc = "done", ![s].file = <<>>, ![s].file_id = "",
              ![s].title = <<>>, ![s].thumbnail_url = <<>>]

\* An awaited call rejected: control passes to the handler's catch block
Thrown(s) == [bot EXCEPT ![s].pc = "catch", ![s].failed = TRUE]

others_unchanged == UNCHANGED <<build, now, store, host, fileIdCache, filesCache, http,
                                acked, flushCount, invalidated, missed, requests>>

\* ---- bot.on(":video")
\* The update arrives: authorization, extraction, and the first awaited call
BotVideo(s, sub) ==
    /\ Free(s)
    /\ updates < MaxUpdates
    /\ LET run == [BotIdle EXCEPT !.kind = "video", !.sub = sub]
       IN  bot' = [bot EXCEPT ![s] =
               IF ~IsAdmin(s) THEN [run EXCEPT !.pc = "delete"]
               ELSE IF sub.video = <<>> THEN run
               ELSE [run EXCEPT !.title = TitleOf(sub.caption),
                                !.file_id = sub.video[1],
                                !.pc = IF sub.thumbnail # <<>> THEN "download"
                                       ELSE "create"]]
    /\ others_unchanged /\ updates' = updates + 1

\* await ctx.deleteMessage()
UploadDelete(s) ==
    /\ bot[s].kind = "video" /\ bot[s].pc = "delete"
    /\ \/ bot' = [Sent(s, DeleteMessage(s)) EXCEPT ![s].pc = "notify"]
       \/ bot' = Thrown(s)
    /\ others_unchanged /\ updates' = updates

\* await ctx.reply("Only admin can upload videos.")
UploadNotify(s) ==
    /\ bot[s].kind = "video" /\ bot[s].pc = "notify"
    /\ \/ bot' = Returned(Sent(s, Reply(s, "onlyAdmin")), s)
       \/ bot' = Thrown(s)
    /\ others_unchanged /\ updates' = updates

\* await downloadTelegramFile(thumbnail.file_id): getFile, fetch, res.ok
UploadDownload(s) ==
    /\ bot[s].kind = "video" /\ bot[s].pc = "download"
    /\ \/ bot' = [bot EXCEPT ![s].pc = "publish"]
       \/ bot' = [Thrown(s) EXCEPT ![s].relayFailed = TRUE]
    /\ others_unchanged /\ updates' = updates

\* await uploadToGitHub(buffer, generateThumbnailPath()): a random path, PUT, res.ok
UploadPublish(s) ==
    /\ bot[s].kind = "video" /\ bot[s].pc = "publish"
    /\ \/ \E u \in UUIDs :
             /\ host' = host \cup {u}
             /\ bot' = [bot EXCEPT ![s].thumbnail_url = <<"thumbnails/", u, ".jpg">>,
                                   ![s].pc = "create"]
       \/ /\ bot' = [Thrown(s) EXCEPT ![s].relayFailed = TRUE]
          /\ host' = host
    /\ UNCHANGED <<build, now, store, fileIdCache, filesCache, http,
                   acked, flushCount, invalidated, missed, requests, updates>>

\* a create that also writes the new record's file_id through to fileIdCache
UploadCreateWriteThrough(s) ==
    /\ bot[s].kind = "video" /\ bot[s].pc = "create"
    /\ \/ /\ store' = Create(store, [title |-> bot[s].title, file_id |-> bot[s].file_id,
                                     thumbnail |-> bot[s].thumbnail_url])
          /\ bot' = [bot EXCEPT ![s].pc = "created", ![s].rec = <<Len(store) + 1>>,
                                ![s].trace = Append(@, "Persisted")]
          /\ fileIdCache' = [x \in DOMAIN fileIdCache \cup {Str(Len(store) + 1)} |->
                                IF x = Str(Len(store) + 1) THEN bot[s].file_id
                                ELSE fileIdCache[x]]
       \/ /\ bot' = Thrown(s)
          /\ store' = store
          /\ fileIdCache' = fileIdCache
    /\ UNCHANGED <<build, now, host, filesCache, http,
                   acked, flushCount, invalidated, missed, requests, updates>>

\* await File.create({title, file_id, thumbnail: thumbnail_url}): the store writes
UploadCreate(s) ==
    /\ bot[s].kind = "video" /\ bot[s].pc = "create"
    /\ \/ /\ store' = Create(store, [title |-> bot[s].title, file_id |-> bot[s].file_id,
                                     thumbnail |-> bot[s].thumbnail_url])
          /\ bot' = [bot EXCEPT ![s].pc = "created", ![s].rec = <<Len(store) + 1>>,
                                ![s].trace = Append(@, "Persisted")]
       \/ /\ bot' = Thrown(s)
          /\ store' = store
    /\ UNCHANGED <<build, now, host, fileIdCache, filesCache, http,
                   acked, flushCount, invalidated, missed, requests, updates>>

\* The handler resumes after File.create: filesCache.flushAll() (part_000), then
\* ctx.reply(...) is called
UploadAfterCreate(s) ==
    /\ bot[s].kind = "video" /\ bot[s].pc = "created"
    /\ IF FlushesOnUpload(build)
       THEN /\ filesCache' = FlushAll(filesCache)
            /\ flushCount' = flushCount + 1
            /\ invalidated' = invalidated \cup {bot[s].rec[1]}
            /\ bot' = [bot EXCEPT ![s].pc = "ack",
                                  ![s].trace = Append(@, "CacheInvalidated")]
       ELSE /\ bot' = [bot EXCEPT ![s].pc = "ack"]
            /\ UNCHANGED <<filesCache, flushCount, invalidated>>
    /\ UNCHANGED <<build, now, store, host, fileIdCache, http, acked, missed,
                   requests, updates>>

\* await ctx.reply("Uploaded Successfully ...")
UploadAck(s) ==
    /\ bot[s].kind = "video" /\ bot[s].pc = "ack"
    /\ \/ /\ bot' = Returned([Sent(s, Reply(s, "uploaded")) EXCEPT
                                    ![s].trace = Append(@, "Acknowledged")], s)
          /\ acked' = acked \cup {bot[s].rec[1]}
       \/ /\ bot' = Thrown(s)
          /\ acked' = acked
    /\ UNCHANGED <<build, now, store, host, fileIdCache, filesCache, http,
                   flushCount, invalidated, missed, requests, updates>>

\* ---- bot.command("start")
\* The update arrives: payload checks and the fileIdCache lookup
BotStart(s, payload) ==
    /\ Free(s)
    /\ updates < MaxUpdates
    /\ LET id == ShortId(payload)
           run == [BotIdle EXCEPT !.kind = "start", !.payload = payload]
           cached == IF id \in DOMAIN fileIdCache THEN fileIdCache[id] ELSE ""
       IN  bot' = [bot EXCEPT ![s] =
               IF payload = <<>> THEN [run EXCEPT !.pc = "welcome"]
               ELSE IF id = <<>> THEN [run EXCEPT !.pc = "invalid"]
               ELSE IF cached # "" THEN [run EXCEPT !.id = id, !.file_id = cached,
                                                    !.pc = "ready"]
               ELSE [run EXCEPT !.id = id, !.pc = "find"]]
    /\ others_unchanged /\ updates' = updates + 1

\* await ctx.reply(...) of an early exit: welcome, invalid link, not available
ExitText(pc) ==
    CASE pc = "welcome" -> "welcome"
      [] pc = "invalid" -> "invalid"
      [] pc = "notfound" -> "notAvailable"

ResolveExit(s) ==
    /\ bot[s].kind = "start" /\ bot[s].pc \in {"welcome", "invalid", "notfound"}
    /\ \/ /\ bot' = Returned(Sent(s, Reply(s, ExitText(bot[s].pc))), s)
          /\ missed' = IF bot[s].pc = "notfound" THEN missed \cup {bot[s].id} ELSE missed
       \/ /\ bot' = Thrown(s)
          /\ missed' = missed
    /\ UNCHANGED <<build, now, store, host, fileIdCache, filesCache, http,
                   acked, flushCount, invalidated, requests, updates>>

\* await File.findById(id).lean(): the store reads
ResolveFind(s) ==
    /\ bot[s].kind = "start" /\ bot[s].pc = "find"
    /\ \/ bot' = [bot EXCEPT ![s].pc = "found", ![s].queried = TRUE,
                             ![s].file = FindById(store, bot[s].id)]
       \/ bot' = [Thrown(s) EXCEPT ![s].queried = TRUE]
    /\ others_unchanged /\ updates' = updates

\* a cache fill keyed by the raw payload instead of the id
ResolveAfterFindKeyedByPayload(s) ==
    /\ bot[s].kind = "start" /\ bot[s].pc = "found"
    /\ IF bot[s].file = <<>>
       THEN /\ bot' = [bot EXCEPT ![s].pc = "notfound"]
            /\ fileIdCache' = fileIdCache
       ELSE /\ bot' = [bot EXCEPT ![s].pc = "ready", ![s].file_id = bot[s].file[1].file_id]
            /\ fileIdCache' = [x \in DOMAIN fileIdCache \cup {bot[s].payload} |->
                                  IF x = bot[s].payload THEN bot[s].file[1].file_id
                                  ELSE fileIdCache[x]]
    /\ UNCHANGED <<build, now, store, host, filesCache, http,
                   acked, flushCount, invalidated, missed, requests, updates>>

\* a cache fill that also remembers the miss
ResolveAfterFindCachesMiss(s) ==
    /\ bot[s].kind = "start" /\ bot[s].pc = "found"
    /\ LET handle == IF bot[s].file = <<>> THEN "missing" ELSE bot[s].file[1].file_id
       IN  /\ bot' = IF bot[s].file = <<>>
                     THEN [bot EXCEPT ![s].pc = "notfound"]
                     ELSE [bot EXCEPT ![s].pc = "ready", ![s].file_id = handle]
           /\ fileIdCache' = [x \in DOMAIN fileIdCache \cup {bot[s].id} |->
                                 IF x = bot[s].id THEN handle ELSE fileIdCache[x]]
    /\ UNCHANGED <<build, now, store, host, filesCache, http,
                   acked, flushCount, invalidated, missed, requests, updates>>

\* The handler resumes after findById: null is the not-available exit, a record
\* fills fileIdCache
ResolveAfterFind(s) ==
    /\ bot[s].kind = "start" /\ bot[s].pc = "found"
    /\ IF bot[s].file = <<>>
       THEN /\ bot' = [bot EXCEPT ![s].pc = "notfound"]
            /\ fileIdCache' = fileIdCache
       ELSE /\ bot' = [bot EXCEPT ![s].pc = "ready", ![s].file_id = bot[s].file[1].file_id]
            /\ fileIdCache' = [x \in DOMAIN fileIdCache \cup {bot[s].id} |->
                                  IF x = bot[s].id THEN bot[s].file[1].file_id
                                  ELSE fileIdCache[x]]
    /\ UNCHANGED <<build, now, store, host, filesCache, http,
                   acked, flushCount, invalidated, missed, requests, updates>>

\* a resolution that goes on to the delivery without the reply
ResolveReadyUnannounced(s) ==
    /\ bot[s].kind = "start" /\ bot[s].pc = "ready"
    /\ \/ bot' = [bot EXCEPT ![s].pc = "send"]
       \/ bot' = Thrown(s)
    /\ others_unchanged /\ updates' = updates

\* await ctx.reply("Your video is ready!")
ResolveReady(s) ==
    /\ bot[s].kind = "start" /\ bot[s].pc = "ready"
    /\ \/ bot' = [Sent(s, Reply(s, "ready")) EXCEPT ![s].pc = "send"]
       \/ bot' = Thrown(s)
    /\ others_unchanged /\ updates' = updates

\* await bot.api.sendVideo(telegramId, file_id)
ResolveSend(s) ==
    /\ bot[s].kind = "start" /\ bot[s].pc = "send"
    /\ \/ bot' = Returned(Sent(s, SendVideo(s, bot[s].file_id)), s)
       \/ bot' = Thrown(s)
    /\ others_unchanged /\ updates' = updates

\* catch (err): console.error, then await ctx.reply(<generic failure>)
CatchText(kind) == IF kind = "video" THEN "uploadFailed" ELSE "wentWrong"

BotCatch(s) ==
    /\ bot[s].pc = "catch"
    /\ \/ bot' = Returned(Sent(s, Reply(s, CatchText(bot[s].kind))), s)
       \/ bot' = Returned([bot EXCEPT ![s].uncaught = TRUE], s)
    /\ others_unchanged /\ updates' = updates

\* ------------------------------------------------------------ specification
Next ==
    \/ Tick
    \/ CachePurge
    \/ \E r \in Listers : \E q \in Queries : HttpGet(r, q)
    \/ \E r \in Listers : ListFind(r)
    \/ \E r \in Listers : ListCount(r)
    \/ \E r \in Listers : ListFail(r)
    \/ \E r \in Listers : ListFinish(r)
    \/ \E s \in Senders : \E sub \in Submissions : BotVideo(s, sub)
    \/ \E s \in Senders : UploadDelete(s)
    \/ \E s \in Senders : UploadNotify(s)
    \/ \E s \in Senders : UploadDownload(s)
    \/ \E s \in Senders : UploadPublish(s)
    \/ \E s \in Senders : UploadCreate(s)
    \/ \E s \in Senders : UploadAfterCreate(s)
    \/ \E s \in Senders : UploadAck(s)
    \/ \E s \in Senders : \E payload \in Payloads : BotStart(s, payload)
    \/ \E s \in Senders : ResolveExit(s)
    \/ \E s \in Senders : ResolveFind(s)
    \/ \E s \in Senders : ResolveAfterFind(s)
    \/ \E s \in Senders : ResolveReady(s)
    \/ \E s \in Senders : ResolveSend(s)
    \/ \E s \in Senders : BotCatch(s)

Spec == Init /\ [][Next]_vars

\* The listing route, the clock and the administrator's uploads of a video
\* without thumbnail.  What is left out (resolution, a non-administrator's
\* upload, the thumbnail relay that precedes File.create) reads and writes none
\* of filesCache, http, acked, flushCount, invalidated, and writes the store
\* only through UploadCreate.
PlainVideos == {sub \in Submissions : sub.video # <<>> /\ sub.thumbnail = <<>>}

NextListing ==
    \/ Tick
    \/ CachePurge
    \/ \E r \in Listers : \E q \in Queries : HttpGet(r, q)
    \/ \E r \in Listers : ListFind(r)
    \/ \E r \in Listers : ListCount(r)
    \/ \E r \in Listers : ListFail(r)
    \/ \E r \in Listers : ListFinish(r)
    \/ \E sub \in PlainVideos : updates < MaxUploads /\ BotVideo(AdminUser, sub)
    \/ UploadCreate(AdminUser)
    \/ UploadAfterCreate(AdminUser)
    \/ UploadAck(AdminUser)
    \/ BotCatch(AdminUser)

SpecListing == Init /\ [][NextListing]_vars

\* The bot handlers of both senders.  The listing route and the clock, left
\* out, read and write none of store, host, fileIdCache, bot, missed.
NextBot ==
    \/ \E s \in Senders : \E sub \in Submissions : BotVideo(s, sub)
    \/ \E s \in Senders : UploadDelete(s)
    \/ \E s \in Senders : UploadNotify(s)
    \/ \E s \in Senders : UploadDownload(s)
    \/ \E s \in Senders : UploadPublish(s)
    \/ \E s \in Senders : UploadCreate(s)
    \/ \E s \in Senders : UploadAfterCreate(s)
    \/ \E s \in Senders : UploadAck(s)
    \/ \E s \in Senders : \E payload \in Payloads : BotStart(s, payload)
    \/ \E s \in Senders : ResolveExit(s)
    \/ \E s \in Senders : ResolveFind(s)
    \/ \E s \in Senders : ResolveAfterFind(s)
    \/ \E s \in Senders : ResolveReady(s)
    \/ \E s \in Senders : ResolveSend(s)
    \/ \E s \in Senders : BotCatch(s)

SpecBot == Init /\ [][NextBot]_vars

\* =================================================================== claims
Answered(r) == http[r].pc = "done" /\ http[r].status = 200

HasRecord(data, i) == \E k \in 1..Len(data) : data[k]._id = Str(i)

Replied(s, text) ==
    \E k \in 1..Len(bot[s].out) : bot[s].out[k].m = "reply" /\ bot[s].out[k].text = text

Delivered(s) == \E k \in 1..Len(bot[s].out) : bot[s].out[k].m = "sendVideo"

\* C1: every listing of page 1 that starts after an upload's success reply was
\* sent contains that upload's record.
C1_ListingAfterAckHasRecord ==
    \A r \in Listers :
        Answered(r) /\ http[r].page = 10 =>
            \A i \in http[r].ackedAtStart : HasRecord(http[r].resp[1].data, i)

\* C2 as stated: an entry served from filesCache was stored less than stdTTL
\* before, after the most recent flushAll, and not before a record creation whose
\* flushAll has happened.
HitStep(r) == requests' = requests + 1 /\ http'[r] # http[r] /\ http'[r].hit

ServedEntry(r) == filesCache[CacheKey(build, http'[r].page)]

UploadOrder == <<"Persisted", "CacheInvalidated", "Acknowledged">>

C3_InvalidateBeforeAck ==
    \A s \in Senders :
        bot[s].kind = "video" =>
            /\ Len(bot[s].trace) <= Len(UploadOrder)
            /\ bot[s].trace = SubSeq(UploadOrder, 1, Len(bot[s].trace))
            /\ bot[s].pc = "ack" => Len(bot[s].trace) = 2

\* C4: requests for one page that arrive within one TTL window, with no flushAll
\* between them, never have two store queries in progress.
C4_OneQueryPerWindow ==
    \A a, b \in Listers :
        /\ a # b
        /\ InFlight(a) /\ InFlight(b)
        /\ http[a].page = http[b].page
        /\ http[a].gStart = http[b].gStart
        /\ http[a].tStart - http[b].tStart < stdTTL
        /\ http[b].tStart - http[a].tStart < stdTTL
        => FALSE

\* C5: two requests for one page, answered less than stdTTL apart, with no record
\* created from the start of either to the answer of either, return the same
\* response, whether one of them was a cache hit or they ran concurrently.
NoUploadBetween(a, b) ==
    /\ http[a].n0 = http[a].n1
    /\ http[b].n0 = http[b].n1
    /\ http[a].n0 = http[b].n0

SameWindow(a, b) ==
    /\ http[a].tEnd - http[b].tEnd < stdTTL
    /\ http[b].tEnd - http[a].tEnd < stdTTL

C5_SameWindowSameResponse ==
    \A a, b \in Listers :
        /\ a # b
        /\ Answered(a) /\ Answered(b)
        /\ http[a].page = http[b].page
        /\ NoUploadBetween(a, b)
        /\ SameWindow(a, b)
        => http[a].resp = http[b].resp

\* C6: every fileIdCache entry equals the file_id the store holds for that id, and
\* every video delivered for an id carries that file_id, from the store (first
\* resolution) or from the cache (later ones).
StoredHandle(id) == FindById(store, id)[1].file_id

C6_CacheEqualsStore ==
    /\ \A id \in DOMAIN fileIdCache :
          FindById(store, id) # <<>> /\ fileIdCache[id] = StoredHandle(id)
    /\ \A s \in Senders : \A k \in 1..Len(bot[s].out) :
          bot[s].out[k].m = "sendVideo" =>
              /\ FindById(store, bot[s].id) # <<>>
              /\ bot[s].out[k].arg = StoredHandle(bot[s].id)

\* a delivery answered from fileIdCache, no store query in that run
C6_Witness ==
    \E s \in Senders :
        /\ bot[s].kind = "start" /\ bot[s].pc = "done"
        /\ ~bot[s].queried /\ Delivered(s)

\* C7: the steps of a resolution on its not-found path leave fileIdCache unchanged;
\* no run answers "not available" without having asked the store, and a run that
\* is about to deliver holds the store's file_id for the requested id.
NotFoundStep(s) ==
    /\ bot[s].kind = "start"
    /\ bot'[s] # bot[s]
    /\ \/ bot[s].pc = "found" /\ bot[s].file = <<>>
       \/ bot[s].pc = "notfound"

C7_MissNotCached ==
    /\ [][\A s \in Senders : NotFoundStep(s) => fileIdCache' = fileIdCache]_vars
    /\ [](\A s \in Senders :
            bot[s].kind = "start" =>
                /\ bot[s].pc = "notfound" \/ Replied(s, "notAvailable") => bot[s].queried
                /\ bot[s].pc \in {"ready", "send"} =>
                      /\ FindById(store, bot[s].id) # <<>>
                      /\ bot[s].file_id = StoredHandle(bot[s].id))

\* an id answered "not available" earlier is delivered after a store query
C7_Witness ==
    \E s \in Senders :
        /\ bot[s].kind = "start" /\ bot[s].pc = "done"
        /\ bot[s].id \in missed
        /\ bot[s].queried /\ Delivered(s)

\* C8: the early exits of the resolution handler: no payload is the welcome reply,
\* a payload empty after stripping is the invalid-link reply without a store
\* query, a non-empty id without record is the not-available reply after a
\* store query; none of them sends media.  A run in which an awaited call failed
\* adds at most the generic reply.
EmptyAfterStrip == {VideoPrefix, VideoPrefix \o <<" ">>}

ExitFor(s) ==
    IF bot[s].payload = <<>> THEN "welcome"
    ELSE IF bot[s].payload \in EmptyAfterStrip THEN "invalid"
    ELSE IF FindById(store, bot[s].id) = <<>> THEN "notAvailable"
    ELSE "none"

C8_ExitsDistinct ==
    \A s \in Senders :
        bot[s].kind = "start" /\ bot[s].pc = "done" /\ ExitFor(s) # "none" =>
            /\ ~Delivered(s)
            /\ \A k \in 1..Len(bot[s].out) :
                  bot[s].out[k].text \in {ExitFor(s), "wentWrong"}
            /\ ~bot[s].failed => bot[s].out = <<Reply(s, ExitFor(s))>>
            /\ ExitFor(s) \in {"welcome", "invalid"} => ~bot[s].queried
            /\ ExitFor(s) = "notAvailable" => bot[s].id # <<>> /\ bot[s].queried

\* /start video_2 without record 2: the not-available reply
C8_Witness ==
    \E s \in Senders :
        /\ bot[s].kind = "start" /\ bot[s].pc = "done"
        /\ bot[s].payload = VideoPrefix \o <<"2">>
        /\ bot[s].out = <<Reply(s, "notAvailable")>>

\* C9: a video from a sender other than the administrator is rejected (message
\* deleted, sender notified) and no step of that run changes the store, the
\* content host, filesCache or fileIdCache; it creates no record.
C9_NonAdminNoState ==
    /\ [][\A s \in Senders \ {AdminUser} :
            bot'[s].kind = "video" /\ bot'[s] # bot[s] =>
                UNCHANGED <<store, host, filesCache, fileIdCache>>]_vars
    /\ [](\A s \in Senders \ {AdminUser} :
            bot[s].kind = "video" =>
                /\ bot[s].rec = <<>> /\ bot[s].trace = <<>>
                /\ bot[s].pc \in {"delete", "notify", "catch", "done"}
                /\ bot[s].pc = "done" /\ ~bot[s].failed =>
                      bot[s].out = <<DeleteMessage(s), Reply(s, "onlyAdmin")>>)

\* a rejected submission of another sender, while the catalog holds a record
C9_Witness ==
    /\ bot[OtherUser].kind = "video" /\ bot[OtherUser].pc = "done"
    /\ bot[OtherUser].sub.video # <<>>
    /\ bot[OtherUser].out = <<DeleteMessage(OtherUser), Reply(OtherUser, "onlyAdmin")>>
    /\ Len(store) > 0

\* C10: an administrator upload whose thumbnail relay failed still persists the
\* record with an empty thumbnail URL, invalidates filesCache and is acknowledged.
C10_ThumbnailFailureNotFatal ==
    \A s \in Senders :
        bot[s].kind = "video" /\ bot[s].pc = "done" /\ bot[s].relayFailed =>
            /\ bot[s].rec # <<>>
            /\ store[bot[s].rec[1]].thumbnail = <<>>
            /\ \E k \in 1..Len(bot[s].trace) : bot[s].trace[k] = "CacheInvalidated"
            /\ Replied(s, "uploaded")

\* C11: an update of a sender starts being handled only when that sender's
\* previous handler run has returned (all its awaited calls, the reply included,
\* are over); runs of different senders interleave at their awaited calls.
Begins(s) == updates' = updates + 1 /\ bot'[s] # bot[s]

C11_OneHandlerPerSender ==
    [][\A s \in Senders :
          Begins(s) => /\ bot[s].pc = "done"
                       /\ bot'[s].out = <<>>
                       /\ \A o \in Senders \ {s} : bot'[o] = bot[o]]_vars

\* both senders suspended inside a handler at once, after a completed upload
C11_Witness ==
    /\ bot[AdminUser].kind = "start" /\ bot[AdminUser].pc = "send"
    /\ bot[OtherUser].kind = "start" /\ bot[OtherUser].pc = "find"
    /\ Len(store) > 0

\* ---------------------------------------------------- page normalisation
\* The listing route over a catalog that earlier uploads have filled: the store
\* outlives the process, both caches start empty.
CatalogSize == 45

RECURSIVE Catalog(_)
Catalog(n) ==
    IF n = 0 THEN <<>>
    ELSE Create(Catalog(n - 1), [title |-> Untitled, file_id |-> "vidB", thumbnail |-> <<>>])

PageQueries == Queries \cup { << <<"2", ".", "5">> >>, << <<"3">> >> }

InitPage ==
    /\ build \in Builds
    /\ now = 0
    /\ store \in {Catalog(0), Catalog(CatalogSize)}
    /\ host = {}
    /\ fileIdCache = [k \in {} |-> k]
    /\ filesCache = EmptyCache
    /\ bot = [s \in Senders |-> BotIdle]
    /\ http = [r \in Listers |-> HttpIdle]
    /\ acked = {}
    /\ flushCount = 0
    /\ invalidated = {}
    /\ missed = {}
    /\ requests = 0
    /\ updates = 0

NextPage ==
    \/ \E r \in Listers : \E q \in PageQueries : HttpGet(r, q)
    \/ \E r \in Listers : ListFind(r)
    \/ \E r \in Listers : ListCount(r)
    \/ \E r \in Listers : ListFail(r)
    \/ \E r \in Listers : ListFinish(r)

SpecPage == InitPage /\ [][NextPage]_vars

\* C12: the page a request uses (cache key, skip, response) is a whole number of
\* at least 1 for every value of the page parameter, and the totalPages of a
\* response is the ceiling of total / limit whatever page was asked for.
IsWholePage(p) == p >= 10 /\ p % 10 = 0

C12_PageNormalised ==
    /\ \A r \in Listers : http[r].pc # "idle" => IsWholePage(http[r].page)
    /\ \A k \in DOMAIN filesCache : IsWholePage(k[2])
    /\ \A r \in Listers :
          Answered(r) =>
              /\ http[r].resp[1].page = http[r].page
              /\ http[r].resp[1].totalPages * limit >= http[r].resp[1].total
              /\ (http[r].resp[1].totalPages - 1) * limit < http[r].resp[1].total

\* C13: a handler run in which an awaited call failed ends, caught, with the
\* generic failure reply sent to the sender; no run ends with an error that
\* left the handler.
C13_FailuresCaught ==
    \A s \in Senders :
        bot[s].pc = "done" /\ bot[s].failed =>
            /\ ~bot[s].uncaught
            /\ Replied(s, CatchText(bot[s].kind))

\* C14: every snapshot in filesCache shows one catalog state: for some earlier
\* length n of the (append-only) store, its total is n and its items are the
\* page of the first n records.
CatalogAt(n) == SubSeq(store, 1, n)

C14_SnapshotOfOneState ==
    \A k \in DOMAIN filesCache :
        \E n \in 0..Len(store) :
            /\ filesCache[k].v.total = CountDocuments(CatalogAt(n))
            /\ filesCache[k].v.data = FindPage(CatalogAt(n), SkipOf(filesCache[k].v.page), limit)

\* C15: a resolution that delivers media has sent "Your video is ready!" first and
\* the video second, both to the requesting sender, the video with the file_id
\* the store holds for the id of the payload; nothing follows the delivery, so
\* media is sent at most once per command.
C15_AckThenMedia ==
    \A s \in Senders :
        bot[s].kind = "start" =>
            /\ \A k \in 1..Len(bot[s].out) : bot[s].out[k].to = s
            /\ \A k \in 1..Len(bot[s].out) :
                  bot[s].out[k].m = "sendVideo" =>
                      /\ k = 2 /\ Len(bot[s].out) = 2
                      /\ bot[s].out[1] = Reply(s, "ready")
                      /\ bot[s].id = ShortId(bot[s].payload)
                      /\ FindById(store, bot[s].id) # <<>>
                      /\ bot[s].out[k] = SendVideo(s, StoredHandle(bot[s].id))

\* a finished resolution of another sender: the reply, then the video
C15_Witness ==
    /\ bot[OtherUser].kind = "start" /\ bot[OtherUser].pc = "done"
    /\ Len(bot[OtherUser].out) = 2
    /\ bot[OtherUser].out[1] = Reply(OtherUser, "ready")
    /\ bot[OtherUser].out[2].m = "sendVideo"

\* C16 as stated: a request that arrives when stdTTL has elapsed since the entry of
\* its page was stored misses the cache and reads the store; no get moves an
\* entry's deadline; the items of a miss are the page of the store as it was at
\* some moment of the request, so they hold every record of that page persisted
\* before the request.
Arrives(r) == requests' = requests + 1 /\ http'[r] # http[r]

ArrivalKey(r) == CacheKey(build, http'[r].page)

DeadlinesKept ==
    \A k \in DOMAIN filesCache' : k \in DOMAIN filesCache /\ filesCache'[k] = filesCache[k]

MissReadsStore(r) ==
    \E m \in http[r].n0..http[r].n1 :
        http[r].resp[1].data = FindPage(CatalogAt(m), SkipOf(http[r].page), limit)

Fails(r) == InFlight(r) /\ http'[r].status = 500

FailureBody == <<[success |-> FALSE]>>

C17_FailureNotCached ==
    /\ [][\A r \in Listers :
            /\ Fails(r) => filesCache' = filesCache /\ http'[r].resp = FailureBody
            /\ Arrives(r) /\ ArrivalKey(r) \notin DOMAIN filesCache =>
                  http'[r].pc = "query"]_vars
    /\ [](\A r \in Listers :
            http[r].status = 500 =>
                http[r].pc = "done" /\ ~http[r].hit /\ http[r].resp = FailureBody)

\* after a failed request for a page, a later one for it is reading the store,
\* while the entry of another page is still cached
C17_Witness ==
    \E a, b \in Listers :
        /\ a # b
        /\ http[a].status = 500
        /\ InFlight(b) /\ http[b].page = http[a].page
        /\ http[b].tStart > http[a].tEnd
        /\ http[b].files # <<>>
        /\ \E k \in DOMAIN filesCache : k[2] # http[a].page

\* C18: no step removes a fileIdCache entry or changes its value; the only step
\* that writes fileIdCache is the resolution handler resuming after a findById
\* that returned a record, and it adds that record's file_id under the requested id.
FillsCache(s) ==
    /\ bot[s].kind = "start" /\ bot[s].pc = "found" /\ bot[s].file # <<>>
    /\ bot'[s].pc = "ready"
    /\ DOMAIN fileIdCache' = DOMAIN fileIdCache \cup {bot[s].id}
    /\ fileIdCache'[bot[s].id] = bot[s].file[1].file_id

C18_IdentifierCacheGrows ==
    [][/\ \A id \in DOMAIN fileIdCache :
             id \in DOMAIN fileIdCache' /\ fileIdCache'[id] = fileIdCache[id]
       /\ fileIdCache' # fileIdCache => \E s \in Senders : FillsCache(s)]_vars

\* the second upload is finished and acknowledged; fileIdCache holds only the
\* first record, filled by the resolution that ran in between
C18_Witness ==
    /\ Len(store) = 2
    /\ DOMAIN fileIdCache = {Str(1)}
    /\ bot[AdminUser].kind = "video" /\ bot[AdminUser].pc = "done"
    /\ bot[AdminUser].rec = <<2>>
    /\ Replied(AdminUser, "uploaded")

\* C19: an upload run that sent "Upload failed." created no record and cleared
\* filesCache for none; a run creates at most one record, and has created one
\* when it sent the success reply.
Invalidated(s) == \E k \in 1..Len(bot[s].trace) : bot[s].trace[k] = "CacheInvalidated"

C19_FailureReplyMeansNoRecord ==
    \A s \in Senders :
        bot[s].kind = "video" =>
            /\ Replied(s, "uploadFailed") => bot[s].rec = <<>> /\ ~Invalidated(s)
            /\ Len(bot[s].rec) <= 1
            /\ Replied(s, "uploaded") => Len(bot[s].rec) = 1
====
